---------------------------- MODULE Spec2Model ----------------------------
(***************************************************************************)
(* Model of the e-commerce backend's server wiring and sitemap controller  *)
(* (src/routes/healthRoutes.js holds routes/healthRoutes.js, server.js and *)
(* controllers/sitemapController.js one after the other).                  *)
(*                                                                         *)
(* JavaScript strings are sequences of one-character strings, so that      *)
(* replace, endsWith, startsWith, split, trim, encodeURIComponent and      *)
(* escapeXml are computed character by character.                          *)
(***************************************************************************)
EXTENDS Integers, Sequences, FiniteSets, TLC

VARIABLES
    env,             \* process.env: SITE_URL, CLIENT_URL, SITEMAP_CACHE_TTL_MS
    clock,           \* Date.now(), in ms
    cachedXml,       \* sitemapController: let cachedXml = null
    cacheTimestamp,  \* sitemapController: let cacheTimestamp = 0
    reqs,            \* the serveSitemap invocations and what each did
    build,           \* one call of buildSitemapXml: its arguments and result
    allowedOrigins,  \* server.js: const allowedOrigins
    corsReq,         \* the HTTP request travelling through the middleware chain
    signals,         \* the SIGINT / SIGTERM signals delivered so far
    callLog,         \* calls made by gracefulShutdown, in order
    closeCallbacks,  \* callbacks handed to server.close and not yet invoked
    forceTimers,     \* armed 10 s force-shutdown timers
    exitCode,        \* process exit code, NotExited while running
    exitCause        \* which line called process.exit

vars == <<env, clock, cachedXml, cacheTimestamp, reqs, build, allowedOrigins,
          corsReq, signals, callLog, closeCallbacks, forceTimers, exitCode,
          exitCause>>

sitemapVars == <<clock, cachedXml, cacheTimestamp, reqs>>
corsVars == <<allowedOrigins, corsReq>>
shutdownVars == <<signals, callLog, closeCallbacks, forceTimers, exitCode, exitCause>>

(***************************************************************************)
(* Bounds of the model.                                                    *)
(***************************************************************************)
MaxReqs == 2
MaxTicks == 3
MaxProducts == 2
MaxSignals == 3

(***************************************************************************)
(* JavaScript values.                                                      *)
(***************************************************************************)
\* An environment variable: unset (undefined) or a string.
Unset == [set |-> FALSE, val |-> <<>>]
Str(s) == [set |-> TRUE, val |-> s]
\* JS truthiness of a string-or-undefined value: "" and undefined are falsy.
Truthy(v) == v.set /\ v.val # <<>>

\* A Date-or-null field of a catalog record; day is the calendar date, ms the
\* time of day.
NullDate == [set |-> FALSE, day |-> 0, ms |-> 0]
DateAt(d, t) == [set |-> TRUE, day |-> d, ms |-> t]

\* A number or NaN.
NaN == [nan |-> TRUE, n |-> 0]
Num(k) == [nan |-> FALSE, n |-> k]

Digits == {"0","1","2","3","4","5","6","7","8","9"}
DigitVal(c) ==
    CASE c = "0" -> 0 [] c = "1" -> 1 [] c = "2" -> 2 [] c = "3" -> 3
      [] c = "4" -> 4 [] c = "5" -> 5 [] c = "6" -> 6 [] c = "7" -> 7
      [] c = "8" -> 8 [] c = "9" -> 9

RECURSIVE DecimalValue(_)
DecimalValue(s) ==
    IF s = <<>> THEN 0
    ELSE 10 * DecimalValue(SubSeq(s, 1, Len(s) - 1)) + DigitVal(s[Len(s)])

(***************************************************************************)
(* String helpers of the JS runtime, on character sequences.               *)
(***************************************************************************)
RECURSIVE Flatten(_)
Flatten(ss) == IF ss = <<>> THEN <<>> ELSE Head(ss) \o Flatten(Tail(ss))

endsWith(s, suffix) ==
    /\ Len(suffix) <= Len(s)
    /\ SubSeq(s, Len(s) - Len(suffix) + 1, Len(s)) = suffix

startsWith(s, prefix) ==
    /\ Len(prefix) <= Len(s)
    /\ SubSeq(s, 1, Len(prefix)) = prefix

includes(list, s) == \E i \in 1..Len(list) : list[i] = s

\* str.replaceAll(ch, rep) for a one-character pattern
replaceAll(s, ch, rep) ==
    Flatten([i \in 1..Len(s) |-> IF s[i] = ch THEN rep ELSE <<s[i]>>])

\* str.replace(/\/$/, ""): removes one "/" at the very end, if there is one
stripTrailingSlash(s) ==
    IF Len(s) > 0 /\ s[Len(s)] = "/" THEN SubSeq(s, 1, Len(s) - 1) ELSE s

\* Number(str) for the strings the model feeds it: optional surrounding
\* blanks, decimal digits; the empty string is 0; anything else is NaN.
RECURSIVE trim(_)
trim(s) ==
    IF s # <<>> /\ Head(s) = " " THEN trim(Tail(s))
    ELSE IF s # <<>> /\ s[Len(s)] = " " THEN trim(SubSeq(s, 1, Len(s) - 1))
    ELSE s

Number(s) ==
    LET t == trim(s)
    IN  IF \A i \in 1..Len(t) : t[i] \in Digits THEN Num(DecimalValue(t)) ELSE NaN

\* encodeURIComponent: A-Z a-z 0-9 - _ . ! ~ * ' ( ) are kept, every other
\* character becomes the %XX of its UTF-8 bytes (ASCII characters here; the
\* catalog's strings come out of a UTF-8 store and hold no lone surrogate).
PercentCode(c) ==
    CASE c = " "  -> <<"%","2","0">>
      [] c = "/"  -> <<"%","2","F">>
      [] c = "&"  -> <<"%","2","6">>
      [] c = "<"  -> <<"%","3","C">>
      [] c = ">"  -> <<"%","3","E">>
      [] c = "\"" -> <<"%","2","2">>
      [] c = "?"  -> <<"%","3","F">>
      [] c = ":"  -> <<"%","3","A">>
      [] c = "%"  -> <<"%","2","5">>
      [] c = ","  -> <<"%","2","C">>
      [] OTHER    -> <<c>>

encodeURIComponent(s) == Flatten([i \in 1..Len(s) |-> PercentCode(s[i])])

(***************************************************************************)
(* controllers/sitemapController.js: the XML document builder.             *)
(***************************************************************************)
escapeXml(str) ==
    replaceAll(replaceAll(replaceAll(replaceAll(replaceAll(str,
        "&", <<"&","a","m","p",";">>), "<", <<"&","l","t",";">>), ">", <<"&","g","t",";">>), "\"", <<"&","q","u","o","t",";">>), "'", <<"&","a","p","o","s",";">>)

\* The <lastmod> tag: new Date(lastmod).toISOString().split("T")[0] keeps the
\* calendar date and drops the time of day; no tag for a null lastmod.
NoLastmod == [present |-> FALSE, day |-> 0]
lastmodTag(lastmod) ==
    IF lastmod.set THEN [present |-> TRUE, day |-> lastmod.day] ELSE NoLastmod

\* One <url> element. Priorities are in hundredths (0.85 is 85).
urlEntry(loc, lastmod, changefreq, priority) ==
    [loc |-> escapeXml(loc), lastmod |-> lastmodTag(lastmod),
     changefreq |-> changefreq, priority |-> priority]

staticPages == <<
    [path |-> <<"/">>,            changefreq |-> "daily",   priority |-> 100],
    [path |-> <<"/","a","b","o","u","t">>,       changefreq |-> "monthly", priority |-> 70],
    [path |-> <<"/","f","a","s","h","i","o","n">>,     changefreq |-> "weekly",  priority |-> 90],
    [path |-> <<"/","f","e","a","t","u","r","e","d">>,    changefreq |-> "weekly",  priority |-> 90],
    [path |-> <<"/","e","l","e","c","t","r","o","n","i","c","s">>, changefreq |-> "weekly",  priority |-> 90],
    [path |-> <<"/","b","e","a","u","t","y">>,      changefreq |-> "weekly",  priority |-> 85],
    [path |-> <<"/","s","p","o","r","t","s">>,      changefreq |-> "weekly",  priority |-> 85],
    [path |-> <<"/","p","r","o","d","u","c","t","s">>,    changefreq |-> "daily",   priority |-> 100],
    [path |-> <<"/","c","a","r","t">>,        changefreq |-> "daily",   priority |-> 80],
    [path |-> <<"/","m","y","-","o","r","d","e","r","s">>,   changefreq |-> "daily",   priority |-> 70],
    [path |-> <<"/","l","o","g","i","n">>,       changefreq |-> "monthly", priority |-> 50],
    [path |-> <<"/","p","o","l","i","c","y">>,      changefreq |-> "monthly", priority |-> 60] >>

\* The value handed to buildSitemapXml as siteUrl: a string or an array of
\* strings (serveSitemap passes its SITE_URL array).
StringValue(s) == [type |-> "string", chars |-> s, items |-> <<>>]
ArrayValue(a) == [type |-> "array", chars |-> <<>>, items |-> a]

\* A sitemap document: the <url> elements of its <urlset>, in order.
NoDoc == <<>>

\* The path of a catalog item: product/<percent-encoded slug> when prod.slug
\* is truthy, product/<_id> otherwise.
productIdentifier_AlwaysId(prod) == <<"p","r","o","d","u","c","t","/">> \o prod.id

productIdentifier(prod) ==
    IF Truthy(prod.slug)
    THEN <<"p","r","o","d","u","c","t","/">> \o encodeURIComponent(prod.slug.val)
    ELSE <<"p","r","o","d","u","c","t","/">> \o prod.id

\* prod.updatedAt ?? prod.createdAt ?? null
productLastmod(prod) == IF prod.updatedAt.set THEN prod.updatedAt ELSE prod.createdAt

\* The body of buildSitemapXml after Product.find has resolved with products.
\* siteUrl.replace exists only on a string: for any other value the first loop
\* iteration throws a TypeError.
buildSitemapXml(siteUrl, products) ==
    IF siteUrl.type # "string" /\ Len(staticPages) + Len(products) > 0
    THEN [threw |-> TRUE, xml |-> NoDoc]
    ELSE
      LET base == stripTrailingSlash(siteUrl.chars)
          statics == [i \in 1..Len(staticPages) |->
                        urlEntry(base \o staticPages[i].path, NullDate,
                                 staticPages[i].changefreq, staticPages[i].priority)]
          prods == [j \in 1..Len(products) |->
                        urlEntry(base \o <<"/">> \o productIdentifier(products[j]),
                                 productLastmod(products[j]), "weekly", 80)]
      IN  [threw |-> FALSE, xml |-> statics \o prods]

(***************************************************************************)
(* Inputs of the builder.                                                  *)
(***************************************************************************)
Product(id, slug, updatedAt, createdAt) ==
    [id |-> id, slug |-> slug, updatedAt |-> updatedAt, createdAt |-> createdAt]

ProductPool == {
    Product(<<"6","4","a","1">>, Str(<<"r","e","d"," ","s","h","o","e","s">>), DateAt(15, 36000), DateAt(3, 0)),
    Product(<<"6","4","b","2">>, Unset, NullDate, DateAt(4, 100)),
    Product(<<"6","4","c","3">>, Str(<<>>), NullDate, NullDate),
    Product(<<"6","4","d","4">>, Str(<<"i","t","'","s">>), DateAt(20, 1), NullDate),
    Product(<<"6","4","e","5">>, Str(<<"a","&","b","/","c">>), NullDate, DateAt(9, 0)) }

RECURSIVE SeqsUpTo(_, _)
SeqsUpTo(S, n) ==
    IF n = 0 THEN { <<>> }
    ELSE LET shorter == SeqsUpTo(S, n - 1)
         IN  shorter \cup { Append(s, x) : s \in shorter, x \in S }

BaseUrls == { <<"h","t","t","p",":","/","/","x",".","i","o">>, <<"h","t","t","p",":","/","/","x",".","i","o","/">>, <<"h","t","t","p",":","/","/","x",".","i","o","/","/">>, <<"h","t","t","p","s",":","/","/","x",".","i","o","/","?","a","&","b">> }

NoBuild == [called |-> FALSE, returned |-> FALSE, siteUrl |-> StringValue(<<>>),
            products |-> <<>>, result |-> [threw |-> FALSE, xml |-> NoDoc]]

(***************************************************************************)
(* Harness for buildSitemapXml as a pure function: one call with arguments *)
(* drawn from BaseUrls and the catalogs over ProductPool.                  *)
(***************************************************************************)
SiteUrlArgs ==
    { StringValue(b) : b \in BaseUrls } \cup { ArrayValue(<<<<"h","t","t","p",":","/","/","l","o","c","a","l","h","o","s","t",":","5","1","7","3">>>>) }

BuildCall(siteUrl, products) ==
    /\ ~build.called
    /\ build' = [called |-> TRUE, returned |-> FALSE, siteUrl |-> siteUrl,
                 products |-> products, result |-> NoBuild.result]
    /\ UNCHANGED <<env, sitemapVars, corsVars, shutdownVars>>

\* Product.find resolves and the rest of the function runs to its return (or
\* throws).
BuildReturn ==
    /\ build.called /\ ~build.returned
    /\ build' = [build EXCEPT !.returned = TRUE,
                              !.result = buildSitemapXml(build.siteUrl, build.products)]
    /\ UNCHANGED <<env, sitemapVars, corsVars, shutdownVars>>

(***************************************************************************)
(* controllers/sitemapController.js: serveSitemap and its cache slot.      *)
(***************************************************************************)
\* The cache slot's document: null, or a built document.
NullXml == [present |-> FALSE, xml |-> NoDoc]
Xml(doc) == [present |-> TRUE, xml |-> doc]

\* What a response carries.
NoBody == [kind |-> "none", xml |-> NoDoc]
XmlBody(doc) == [kind |-> "xml", xml |-> doc]
ErrorBody == [kind |-> "Server error generating sitemap", xml |-> NoDoc]

\* const SITE_URL = ["http://localhost:5173"], then the two assignments to
\* it. SITE_URL is a const binding: an assignment to it throws a TypeError
\* (after its right-hand side was evaluated), so with either setting truthy
\* the handler goes to its catch block; with neither, SITE_URL stays the
\* one-element array.
siteUrlConfig(e) ==
    IF Truthy(e.SITE_URL) THEN [threw |-> TRUE, value |-> ArrayValue(<<>>)]
    ELSE IF Truthy(e.CLIENT_URL) THEN [threw |-> TRUE, value |-> ArrayValue(<<>>)]
    ELSE [threw |-> FALSE, value |-> ArrayValue(<< <<"h","t","t","p",":","/","/","l","o","c","a","l","h","o","s","t",":","5","1","7","3">> >>)]

\* process.env.SITEMAP_CACHE_TTL_MS ? Number(...) : 60 * 60 * 1000
cacheTtlMs(e) ==
    IF Truthy(e.SITEMAP_CACHE_TTL_MS)
    THEN Number(e.SITEMAP_CACHE_TTL_MS.val)
    ELSE Num(60 * 60 * 1000)

\* cachedXml && now - cacheTimestamp < CACHE_TTL_MS (false for a NaN TTL)
cacheIsFresh(now, ttl) ==
    /\ cachedXml.present
    /\ ~ttl.nan
    /\ now - cacheTimestamp < ttl.n

IdleReq ==
    [pc |-> "idle", siteUrl |-> ArrayValue(<<>>), ttl |-> Num(0),
     status |-> 0, body |-> NoBody, contentType |-> "",
     queries |-> 0, lookup |-> "none", products |-> <<>>,
     missed |-> FALSE, fromCache |-> FALSE,
     slotBefore |-> [doc |-> NullXml, ts |-> 0],
     slotAfter |-> [doc |-> NullXml, ts |-> 0], finishedAt |-> 0]

Slot == [doc |-> cachedXml, ts |-> cacheTimestamp]

\* The catch block: res.status(500).send("Server error generating sitemap")
respondServerError(req, slot, now) ==
    [req EXCEPT !.pc = "done", !.status = 500, !.body = ErrorBody,
                !.slotAfter = slot, !.finishedAt = now]

\* res.header("Content-Type", "application/xml"); res.send(doc)
respondXml(req, doc, slot, now) ==
    [req EXCEPT !.pc = "done", !.status = 200, !.body = XmlBody(doc),
                !.contentType = "application/xml",
                !.slotAfter = slot, !.finishedAt = now]

\* serveSitemap from its entry up to the await of Product.find inside
\* buildSitemapXml: the configuration, the cache check and, on a miss, the
\* catalog query being issued.
ServeStart(r) ==
    /\ reqs[r].pc = "idle"
    /\ LET cfg == siteUrlConfig(env)
           ttl == cacheTtlMs(env)
           now == clock
           me  == [reqs[r] EXCEPT !.slotBefore = Slot]
       IN  IF cfg.threw
           THEN reqs' = [reqs EXCEPT ![r] = respondServerError(me, Slot, now)]
           ELSE IF cacheIsFresh(now, ttl)
           THEN reqs' = [reqs EXCEPT ![r] =
                    respondXml([me EXCEPT !.ttl = ttl, !.fromCache = TRUE],
                               cachedXml.xml, Slot, now)]
           ELSE reqs' = [reqs EXCEPT ![r] =
                    [me EXCEPT !.pc = "awaitFind", !.siteUrl = cfg.value,
                               !.ttl = ttl, !.missed = TRUE,
                               !.queries = @ + 1, !.lookup = "pending"]]
    /\ UNCHANGED <<env, clock, cachedXml, cacheTimestamp, build, corsVars, shutdownVars>>

\* Product.find resolved with products: the rest of buildSitemapXml, then
\* the lines after the await in serveSitemap (store in the slot, send), or the
\* catch block when the builder threw. No other handler runs in between: the
\* continuation has no further await.
OnCatalogResult(r, products) ==
    LET me == [reqs[r] EXCEPT !.lookup = "ok", !.products = products]
        built == buildSitemapXml(me.siteUrl, products)
    IN  IF built.threw
        THEN /\ reqs' = [reqs EXCEPT ![r] = respondServerError(me, Slot, clock)]
             /\ UNCHANGED <<cachedXml, cacheTimestamp>>
        ELSE /\ cachedXml' = Xml(built.xml)
             /\ cacheTimestamp' = clock
             /\ reqs' = [reqs EXCEPT ![r] =
                    respondXml(me, built.xml, [doc |-> Xml(built.xml), ts |-> clock], clock)]

\* Product.find rejected: buildSitemapXml rejects, the await throws, the
\* catch block answers.
OnCatalogFailure_CachesFailure(r) ==
    /\ cachedXml' = Xml(NoDoc)
    /\ cacheTimestamp' = clock
    /\ reqs' = [reqs EXCEPT ![r] =
            respondServerError([reqs[r] EXCEPT !.lookup = "failed"],
                               [doc |-> Xml(NoDoc), ts |-> clock], clock)]

OnCatalogFailure(r) ==
    /\ reqs' = [reqs EXCEPT ![r] =
            respondServerError([reqs[r] EXCEPT !.lookup = "failed"], Slot, clock)]
    /\ UNCHANGED <<cachedXml, cacheTimestamp>>

Catalogs == SeqsUpTo(ProductPool, 1)

FindResolve(r) ==
    /\ reqs[r].pc = "awaitFind"
    /\ \E products \in Catalogs : OnCatalogResult(r, products)
    /\ UNCHANGED <<env, clock, build, corsVars, shutdownVars>>

FindReject(r) ==
    /\ reqs[r].pc = "awaitFind"
    /\ OnCatalogFailure(r)
    /\ UNCHANGED <<env, clock, build, corsVars, shutdownVars>>

\* Time passes.
Tick ==
    /\ \E d \in {500, 1000} :
          /\ clock + d <= MaxTicks * 500
          /\ clock' = clock + d
    /\ UNCHANGED <<env, cachedXml, cacheTimestamp, reqs, build, corsVars, shutdownVars>>

(***************************************************************************)
(* server.js: allowedOrigins, the CORS origin callback, the route chain    *)
(* and the global error handler.                                           *)
(***************************************************************************)
\* str.split(",")
RECURSIVE split(_, _)
split(s, sep) ==
    IF \A i \in 1..Len(s) : s[i] # sep THEN << s >>
    ELSE LET i == CHOOSE k \in 1..Len(s) :
                     s[k] = sep /\ \A m \in 1..(k - 1) : s[m] # sep
         IN  << SubSeq(s, 1, i - 1) >> \o split(SubSeq(s, i + 1, Len(s)), sep)

NonEmpty(u) == u # <<>>

\* (process.env.CLIENT_URL || "").split(",").map(trim).filter(Boolean)
\*   .map(u => u.replace(/\/$/, "")), then the push of the local dev origin.
buildAllowedOrigins(e) ==
    LET rawClientEnv == IF Truthy(e.CLIENT_URL) THEN e.CLIENT_URL.val ELSE <<>>
        parts == split(rawClientEnv, ",")
        trimmed == [i \in 1..Len(parts) |-> trim(parts[i])]
        kept == SelectSeq(trimmed, NonEmpty)
        list == [i \in 1..Len(kept) |-> stripTrailingSlash(kept[i])]
    IN  IF includes(list, <<"h","t","t","p",":","/","/","l","o","c","a","l","h","o","s","t",":","5","1","7","3">>)
        THEN list
        ELSE Append(list, <<"h","t","t","p",":","/","/","l","o","c","a","l","h","o","s","t",":","5","1","7","3">>)

normalizeOrigin_Identity(origin) == origin

\* origin ? origin.replace(/\/$/, "") : origin
normalizeOrigin(origin) ==
    IF Truthy(origin) THEN Str(stripTrailingSlash(origin.val)) ELSE origin

\* allowedOrigins.some(a => ...): "*.example.com" and ".example.com" entries
matchesPattern(incoming, allowed) ==
    \E i \in 1..Len(allowed) :
        LET a == allowed[i]
        IN  IF startsWith(a, <<"*",".">>) THEN endsWith(incoming, Tail(a))
            ELSE IF startsWith(a, <<".">>) THEN endsWith(incoming, a)
            ELSE FALSE

\* The origin callback of the cors options: TRUE for callback(null, true),
\* FALSE for callback(new Error("Not allowed by CORS: " + origin), false).
corsOriginAllowed(origin, allowed) ==
    IF ~Truthy(origin) THEN TRUE
    ELSE LET incoming == normalizeOrigin(origin).val
         IN  IF includes(allowed, incoming) THEN TRUE
             ELSE IF includes(allowed, <<"*">>) THEN TRUE
             ELSE IF endsWith(incoming, <<".","n","i","p",".","i","o">>) THEN TRUE
             ELSE IF matchesPattern(incoming, allowed) THEN TRUE
             ELSE FALSE

NoError == [set |-> FALSE, message |-> <<>>, status |-> 0]
IdleCorsReq ==
    [stage |-> "none", origin |-> Unset, decision |-> "pending",
     err |-> NoError, status |-> 0, routeRan |-> FALSE]

\* The Origin headers of the modelled requests: absent, empty, or a string.
Origins == {
    Unset, Str(<<>>),
    Str(<<"h","t","t","p",":","/","/","l","o","c","a","l","h","o","s","t",":","5","1","7","3">>), Str(<<"h","t","t","p",":","/","/","l","o","c","a","l","h","o","s","t",":","5","1","7","3","/">>),
    Str(<<"h","t","t","p",":","/","/","l","o","c","a","l","h","o","s","t",":","5","1","7","3","/","/">>),
    Str(<<"h","t","t","p",":","/","/","a",".","n","i","p",".","i","o">>), Str(<<"h","t","t","p",":","/","/","a",".","n","i","p",".","i","o","/">>), Str(<<"h","t","t","p",":","/","/","n","i","p",".","i","o">>),
    Str(<<"h","t","t","p","s",":","/","/","e","x",".","i","o">>), Str(<<"h","t","t","p","s",":","/","/","s","h","o","p",".","e","x",".","i","o">>), Str(<<"h","t","t","p","s",":","/","/","s","h","o","p",".","e","x",".","i","o","/">>),
    Str(<<"h","t","t","p","s",":","/","/","a","p","p",".","m","y",".","i","o">>), Str(<<"h","t","t","p","s",":","/","/","e","v","i","l",".","i","o">>) }

\* A request arrives with its Origin header (the parsers before cors pass it on).
Arrive(origin) ==
    /\ corsReq.stage = "none"
    /\ corsReq' = [IdleCorsReq EXCEPT !.stage = "cors", !.origin = origin]
    /\ UNCHANGED <<env, sitemapVars, build, allowedOrigins, shutdownVars>>

\* The cors middleware: next() when the callback allows the origin,
\* next(err) with the callback's error otherwise.
CorsMiddleware ==
    /\ corsReq.stage = "cors"
    /\ IF corsOriginAllowed(corsReq.origin, allowedOrigins)
       THEN corsReq' = [corsReq EXCEPT !.stage = "route", !.decision = "allowed"]
       ELSE corsReq' = [corsReq EXCEPT
                !.stage = "error", !.decision = "blocked",
                !.err = [set |-> TRUE,
                         message |-> <<"N","o","t"," ","a","l","l","o","w","e","d"," ","b","y"," ","C","O","R","S",":"," ">> \o corsReq.origin.val,
                         status |-> 0]]
    /\ UNCHANGED <<env, sitemapVars, build, allowedOrigins, shutdownVars>>

\* A route handler answers, the 404 handler answers, or a handler fails and
\* passes its error on (with or without a status of its own).
RouteHandler ==
    /\ corsReq.stage = "route"
    /\ \E outcome \in {"ok", "notFound", "fails", "failsWithStatus"} :
          CASE outcome = "ok" ->
                 corsReq' = [corsReq EXCEPT !.stage = "done", !.status = 200,
                                            !.routeRan = TRUE]
            [] outcome = "notFound" ->
                 corsReq' = [corsReq EXCEPT !.stage = "done", !.status = 404]
            [] outcome = "fails" ->
                 corsReq' = [corsReq EXCEPT !.stage = "error", !.routeRan = TRUE,
                        !.err = [set |-> TRUE, message |-> <<"b","o","o","m">>, status |-> 0]]
            [] outcome = "failsWithStatus" ->
                 corsReq' = [corsReq EXCEPT !.stage = "error", !.routeRan = TRUE,
                        !.err = [set |-> TRUE, message |-> <<"b","a","d"," ","i","n","p","u","t">>, status |-> 400]]
    /\ UNCHANGED <<env, sitemapVars, build, allowedOrigins, shutdownVars>>

\* 403 for the origin callback's error, err.status || 500 for any other
errorStatus(err) ==
    IF err.message # <<>> /\ startsWith(err.message, <<"N","o","t"," ","a","l","l","o","w","e","d"," ","b","y"," ","C","O","R","S">>)
    THEN 403
    ELSE IF err.status # 0 THEN err.status ELSE 500

GlobalErrorHandler ==
    /\ corsReq.stage = "error"
    /\ corsReq' = [corsReq EXCEPT !.stage = "done", !.status = errorStatus(corsReq.err)]
    /\ UNCHANGED <<env, sitemapVars, build, allowedOrigins, shutdownVars>>

\* The response is sent; the next request may arrive.
Respond ==
    /\ corsReq.stage = "done"
    /\ corsReq' = IdleCorsReq
    /\ UNCHANGED <<env, sitemapVars, build, allowedOrigins, shutdownVars>>

(***************************************************************************)
(* server.js: gracefulShutdown and the SIGINT / SIGTERM handlers.          *)
(***************************************************************************)
Running == [exited |-> FALSE, code |-> 0]
Exited(code) == [exited |-> TRUE, code |-> code]

\* gracefulShutdown(signal), which has no await and so runs as one step.
\* stopFails: stopHealthChecks throws (caught by the inner try, a warning).
\* closeFails: server.close throws (caught by the outer try: exit 1).
gracefulShutdown(signal, stopFails, closeFails) ==
    /\ signals' = Append(signals, signal)
    /\ IF closeFails
       THEN /\ callLog' = callLog \o
                    << IF stopFails THEN "stopHealthChecks:threw" ELSE "stopHealthChecks",
                       "server.close:threw", "process.exit" >>
            /\ exitCode' = Exited(1)
            /\ exitCause' = "catch"
            /\ UNCHANGED <<closeCallbacks, forceTimers>>
       ELSE /\ callLog' = callLog \o
                    << IF stopFails THEN "stopHealthChecks:threw" ELSE "stopHealthChecks",
                       "server.close", "setTimeout" >>
            /\ closeCallbacks' = closeCallbacks + 1
            /\ forceTimers' = forceTimers + 1
            /\ UNCHANGED <<exitCode, exitCause>>

Signal ==
    /\ ~exitCode.exited
    /\ Len(signals) < MaxSignals
    /\ \E signal \in {"SIGINT", "SIGTERM"}, stopFails \in BOOLEAN, closeFails \in BOOLEAN :
          gracefulShutdown(signal, stopFails, closeFails)
    /\ UNCHANGED <<env, sitemapVars, build, corsVars>>

onServerClosed_IgnoresError(err) ==
    /\ exitCode' = Exited(0)
    /\ exitCause' = IF err THEN "closeError" ELSE "closeOk"

\* The callback given to server.close: exit 1 on an error, exit 0 otherwise.
onServerClosed(err) ==
    /\ exitCode' = IF err THEN Exited(1) ELSE Exited(0)
    /\ exitCause' = IF err THEN "closeError" ELSE "closeOk"

\* The server invokes one of the callbacks it was given.
CloseCallback ==
    /\ ~exitCode.exited
    /\ closeCallbacks > 0
    /\ \E err \in BOOLEAN : onServerClosed(err)
    /\ closeCallbacks' = closeCallbacks - 1
    /\ callLog' = Append(callLog, "process.exit")
    /\ UNCHANGED <<env, sitemapVars, build, corsVars, signals, forceTimers>>

\* A 10 s timer fires: exit 1.
ForceTimer ==
    /\ ~exitCode.exited
    /\ forceTimers > 0
    /\ forceTimers' = forceTimers - 1
    /\ exitCode' = Exited(1)
    /\ exitCause' = "timer"
    /\ callLog' = Append(callLog, "process.exit")
    /\ UNCHANGED <<env, sitemapVars, build, corsVars, signals, closeCallbacks>>

(***************************************************************************)
(* Initial states and specifications.                                      *)
(***************************************************************************)
Env(site, client, ttl) ==
    [SITE_URL |-> site, CLIENT_URL |-> client, SITEMAP_CACHE_TTL_MS |-> ttl]

SiteUrlSettings == { Unset, Str(<<"h","t","t","p","s",":","/","/","s","h","o","p",".","i","o">>) }
ClientUrlSettings == { Unset, Str(<<"h","t","t","p",":","/","/","c",".","i","o",",","h","t","t","p",":","/","/","d",".","i","o">>) }
TtlSettings == { Unset, Str(<<>>), Str(<<"1","0","0","0">>), Str(<<"a","b","c">>) }

CorsClientUrlSettings == {
    Unset,
    Str(<<"h","t","t","p","s",":","/","/","e","x",".","i","o","/">>),
    Str(<<" ","h","t","t","p","s",":","/","/","e","x",".","i","o"," ",","," ","*",".","e","x",".","i","o","/">>),
    Str(<<".","m","y",".","i","o",",">>),
    Str(<<"h","t","t","p","s",":","/","/","e","x",".","i","o",",","*">>),
    Str(<<"h","t","t","p",":","/","/","l","o","c","a","l","h","o","s","t",":","5","1","7","3","/">>) }

\* Module load: the cache slot is empty, nothing is in flight.
Loaded ==
    /\ clock = 0
    /\ cachedXml = NullXml
    /\ cacheTimestamp = 0
    /\ reqs = [r \in 1..MaxReqs |-> IdleReq]
    /\ build = NoBuild
    /\ allowedOrigins = buildAllowedOrigins(env)
    /\ corsReq = IdleCorsReq
    /\ signals = <<>>
    /\ callLog = <<>>
    /\ closeCallbacks = 0
    /\ forceTimers = 0
    /\ exitCode = Running
    /\ exitCause = ""

\* The sitemap endpoint under concurrent requests and a moving clock.
Init ==
    /\ env \in { Env(s, c, t) : s \in SiteUrlSettings, c \in ClientUrlSettings,
                                t \in TtlSettings }
    /\ Loaded

Next ==
    \/ \E r \in 1..MaxReqs : ServeStart(r)
    \/ \E r \in 1..MaxReqs : FindResolve(r)
    \/ \E r \in 1..MaxReqs : FindReject(r)
    \/ Tick

Spec == Init /\ [][Next]_vars

\* buildSitemapXml as a function of its arguments.
BuildInit ==
    /\ env = Env(Unset, Unset, Unset)
    /\ Loaded

BuildNext ==
    \/ \E siteUrl \in SiteUrlArgs, products \in SeqsUpTo(ProductPool, MaxProducts) :
          BuildCall(siteUrl, products)
    \/ BuildReturn

BuildSpec == BuildInit /\ [][BuildNext]_vars

\* Requests through the CORS middleware.
CorsInit ==
    /\ env \in { Env(Unset, c, Unset) : c \in CorsClientUrlSettings }
    /\ Loaded

CorsNext ==
    \/ \E origin \in Origins : Arrive(origin)
    \/ CorsMiddleware
    \/ RouteHandler
    \/ GlobalErrorHandler
    \/ Respond

CorsSpec == CorsInit /\ [][CorsNext]_vars

\* Process signals. The event loop runs a timer that is due, so the force
\* timer is weakly fair.
ShutdownInit ==
    /\ env = Env(Unset, Unset, Unset)
    /\ Loaded

ShutdownNext ==
    \/ Signal
    \/ CloseCallback
    \/ ForceTimer

ShutdownSpec == ShutdownInit /\ [][ShutdownNext]_vars /\ WF_vars(ForceTimer)

(***************************************************************************)
(* Properties.                                                             *)
(***************************************************************************)
Done(r) == reqs[r].pc = "done"

\* The base URL the configuration selects: SITE_URL, else CLIENT_URL, else
\* the local development default.
SelectedBaseUrl ==
    IF Truthy(env.SITE_URL) THEN env.SITE_URL.val
    ELSE IF Truthy(env.CLIENT_URL) THEN env.CLIENT_URL.val
    ELSE <<"h","t","t","p",":","/","/","l","o","c","a","l","h","o","s","t",":","5","1","7","3">>

\* No rebuild ever reaches the store: with SITE_URL or CLIENT_URL set the
\* handler throws on the assignment to its const, with neither set the
\* builder throws on the array it is given. The cache slot stays as loaded.
SlotStaysEmpty == cachedXml = NullXml /\ cacheTimestamp = 0

\* C1: a request that finds the cache slot empty or expired and whose catalog
\* lookup succeeds has made exactly one catalog query, is answered 200 with
\* the freshly built document, and leaves that document in the cache slot
\* with the current timestamp.
C1_MissRebuildsAndCaches ==
    \A r \in 1..MaxReqs :
        (Done(r) /\ reqs[r].missed /\ reqs[r].lookup = "ok") =>
            /\ reqs[r].queries = 1
            /\ reqs[r].status = 200
            /\ reqs[r].body.kind = "xml"
            /\ reqs[r].slotAfter =
                   [doc |-> Xml(reqs[r].body.xml), ts |-> reqs[r].finishedAt]

\* C4: when the catalog lookup of a request fails, the request is answered
\* 500 with the error text (no document, so no stale one), it has queried the
\* catalog once, and no step of the request, from its arrival to the failure
\* response, changes the cache slot's document or timestamp.
C4_FailureLeavesCacheAlone ==
    [][\A r \in 1..MaxReqs :
          (reqs'[r] # reqs[r] /\ reqs'[r].lookup \in {"pending", "failed"}) =>
              /\ cachedXml' = cachedXml
              /\ cacheTimestamp' = cacheTimestamp
              /\ reqs'[r].lookup = "failed" =>
                    /\ reqs'[r].pc = "done"
                    /\ reqs'[r].status = 500
                    /\ reqs'[r].body = ErrorBody
                    /\ reqs'[r].queries = 1
                    /\ reqs'[r].slotAfter = reqs'[r].slotBefore]_vars

\* C4 witness: a request whose catalog lookup failed after the clock moved,
\* answered 500, while another request is still waiting for the catalog.
C4_Witness ==
    \E r, q \in 1..MaxReqs :
        /\ Done(r) /\ reqs[r].lookup = "failed" /\ reqs[r].status = 500
        /\ reqs[r].finishedAt > 0
        /\ reqs[q].pc = "awaitFind"

\* C5: a cache-miss request with a working catalog is answered 200 with a
\* document whose locations all start with the base URL selected by the
\* fallback chain SITE_URL, CLIENT_URL, http://localhost:5173.
C5_BaseUrlFallback ==
    \A r \in 1..MaxReqs :
        (Done(r) /\ ~reqs[r].fromCache /\ reqs[r].lookup # "failed") =>
            /\ reqs[r].status = 200
            /\ reqs[r].body.kind = "xml"
            /\ \A i \in 1..Len(reqs[r].body.xml) :
                  startsWith(reqs[r].body.xml[i].loc, SelectedBaseUrl)

\* C6: with SITEMAP_CACHE_TTL_MS unset or malformed (non-numeric) the
\* handler's TTL is the default 3,600,000 ms.
C6_MalformedTtlIsDefault ==
    \A r \in 1..MaxReqs :
        (reqs[r].missed /\ (~env.SITEMAP_CACHE_TTL_MS.set
                              \/ Number(env.SITEMAP_CACHE_TTL_MS.val).nan)) =>
            reqs[r].ttl = Num(3600000)

\* The <url> elements of a returned document that stand for the static pages:
\* one per static page, in order, with that page's hints.
StaticEntriesPresent(urls) ==
    /\ Len(urls) >= Len(staticPages)
    /\ \A i \in 1..Len(staticPages) :
          /\ endsWith(urls[i].loc, staticPages[i].path)
          /\ urls[i].changefreq = staticPages[i].changefreq
          /\ urls[i].priority = staticPages[i].priority
          /\ urls[i].lastmod = NoLastmod

\* The location the claim gives a catalog item, before any XML escaping.
ClaimedProductLoc(base, prod) ==
    stripTrailingSlash(base) \o <<"/","p","r","o","d","u","c","t","/">> \o
        (IF Truthy(prod.slug) THEN encodeURIComponent(prod.slug.val) ELSE prod.id)

BuiltFromString == build.returned /\ build.siteUrl.type = "string"

\* C8 as stated: for a string base URL the document holds one entry per
\* static page followed by one per catalog item, and the <loc> of item j is
\* literally <base without trailing slash>/product/<encoded slug or id>.
C8_LocIsClaimedPath ==
    BuiltFromString =>
        LET urls == build.result.xml
            n == Len(staticPages)
        IN  /\ ~build.result.threw
            /\ Len(urls) = n + Len(build.products)
            /\ StaticEntriesPresent(urls)
            /\ \A j \in 1..Len(build.products) :
                  urls[n + j].loc =
                      ClaimedProductLoc(build.siteUrl.chars, build.products[j])

\* C8 amended: the same, with the <loc> text being the XML-escaped form of
\* that location (an apostrophe of the slug, which percent-encoding keeps,
\* and any reserved character of the base URL appear as entities).
C8_LocIsEscapedClaimedPath ==
    BuiltFromString =>
        LET urls == build.result.xml
            n == Len(staticPages)
        IN  /\ ~build.result.threw
            /\ Len(urls) = n + Len(build.products)
            /\ StaticEntriesPresent(urls)
            /\ \A j \in 1..Len(build.products) :
                  urls[n + j].loc =
                      escapeXml(ClaimedProductLoc(build.siteUrl.chars, build.products[j]))

\* C8 witness: a base URL with a trailing slash, an item with the slug
\* "red shoes" followed by an item without a slug.
C8_Witness ==
    /\ BuiltFromString
    /\ build.siteUrl.chars = <<"h","t","t","p",":","/","/","x",".","i","o","/">>
    /\ Len(build.products) = 2
    /\ build.products[1].slug = Str(<<"r","e","d"," ","s","h","o","e","s">>)
    /\ ~build.products[2].slug.set
    /\ build.result.xml[Len(staticPages) + 1].loc = <<"h","t","t","p",":","/","/","x",".","i","o","/","p","r","o","d","u","c","t","/","r","e","d","%","2","0","s","h","o","e","s">>
    /\ build.result.xml[Len(staticPages) + 2].loc = <<"h","t","t","p",":","/","/","x",".","i","o","/","p","r","o","d","u","c","t","/","6","4","b","2">>

\* Every server.close in the log directly follows the stopHealthChecks call
\* of the same gracefulShutdown invocation.
StopBeforeClose ==
    \A i \in 1..Len(callLog) :
        callLog[i] \in {"server.close", "server.close:threw"} =>
            /\ i > 1
            /\ callLog[i - 1] \in {"stopHealthChecks", "stopHealthChecks:threw"}

ExitCodeMatchesCause ==
    /\ (exitCode.exited /\ exitCode.code = 0) => exitCause = "closeOk"
    /\ exitCause \in {"closeError", "timer", "catch"} => exitCode = Exited(1)
    /\ exitCode.exited => exitCause \in {"closeOk", "closeError", "timer", "catch"}

\* C9: for any sequence of SIGINT / SIGTERM signals, gracefulShutdown calls
\* stopHealthChecks before server.close; the process exits 0 only through a
\* close callback without error, exits 1 when a close callback reports an
\* error, the force timer fires or the handler throws; and once a signal has
\* arrived the process eventually exits.
C9_GracefulShutdown ==
    /\ [](StopBeforeClose /\ ExitCodeMatchesCause)
    /\ (Len(signals) > 0) ~> exitCode.exited

\* C9 witness: a second signal arrived while the server was closing and a
\* close callback then reported an error.
C9_Witness ==
    /\ Len(signals) >= 2
    /\ exitCode = Exited(1)
    /\ exitCause = "closeError"

\* C10 as stated: only the exact-match test uses the origin with its
\* trailing slash removed; the .nip.io and pattern tests use the origin as
\* sent, and only a missing header is let through unexamined.
AcceptsAsClaimed(origin, allowed) ==
    \/ ~origin.set
    \/ /\ origin.set
       /\ \/ includes(allowed, stripTrailingSlash(origin.val))
          \/ includes(allowed, <<"*">>)
          \/ endsWith(origin.val, <<".","n","i","p",".","i","o">>)
          \/ \E i \in 1..Len(allowed) :
                \/ startsWith(allowed[i], <<"*",".">>) /\ endsWith(origin.val, Tail(allowed[i]))
                \/ startsWith(allowed[i], <<".">>) /\ endsWith(origin.val, allowed[i])

\* C10 amended: every test uses the origin with one trailing slash removed,
\* and an empty Origin header is let through like a missing one.
AcceptsAmended(origin, allowed) ==
    \/ ~origin.set
    \/ origin.val = <<>>
    \/ LET o == stripTrailingSlash(origin.val)
       IN  \/ includes(allowed, o)
           \/ includes(allowed, <<"*">>)
           \/ endsWith(o, <<".","n","i","p",".","i","o">>)
           \/ \E i \in 1..Len(allowed) :
                 \/ startsWith(allowed[i], <<"*",".">>) /\ endsWith(o, Tail(allowed[i]))
                 \/ startsWith(allowed[i], <<".">>) /\ endsWith(o, allowed[i])

BlockedGets403 ==
    corsReq.decision = "blocked" =>
        /\ ~corsReq.routeRan
        /\ corsReq.stage \in {"error", "done"}
        /\ corsReq.stage = "done" => corsReq.status = 403

\* C10 as stated: the origin callback accepts exactly the requests of
\* AcceptsAsClaimed; allowedOrigins holds http://localhost:5173; a rejected
\* request is answered 403 by the global error handler and runs no route
\* handler.
C10_CorsGateAsClaimed ==
    /\ includes(allowedOrigins, <<"h","t","t","p",":","/","/","l","o","c","a","l","h","o","s","t",":","5","1","7","3">>)
    /\ corsReq.decision # "pending" =>
          (corsReq.decision = "allowed" <=> AcceptsAsClaimed(corsReq.origin, allowedOrigins))
    /\ BlockedGets403

\* C10 amended: the same with AcceptsAmended as the accepted set.
C10_CorsGate ==
    /\ includes(allowedOrigins, <<"h","t","t","p",":","/","/","l","o","c","a","l","h","o","s","t",":","5","1","7","3">>)
    /\ corsReq.decision # "pending" =>
          (corsReq.decision = "allowed" <=> AcceptsAmended(corsReq.origin, allowedOrigins))
    /\ BlockedGets403

\* C10 witness: with a "*.ex.io" entry configured, a foreign origin was
\* rejected and answered 403 without a route handler.
C10_Witness ==
    /\ includes(allowedOrigins, <<"*",".","e","x",".","i","o">>)
    /\ corsReq.stage = "done"
    /\ corsReq.origin = Str(<<"h","t","t","p","s",":","/","/","e","v","i","l",".","i","o">>)
    /\ corsReq.decision = "blocked"
    /\ corsReq.status = 403
    /\ ~corsReq.routeRan

=============================================================================
